---- MODULE Spec2Model ----
(***************************************************************************)
(* Model of process_killer (src/src/main.rs): the App struct, its          *)
(* operations (switch_sort, next, prev, kill, refetch_process, search),    *)
(* the key dispatch of run_app and the terminal set-up / restore of main.  *)
(*                                                                         *)
(* Strings are sequences of byte values (Rust compares and searches        *)
(* String bytewise).  Option<T> is a sequence of length 0 (None) or 1      *)
(* (Some(x)).  A usize that wrapped below zero is written as the negative  *)
(* number v - 2^64, so -1 stands for usize::MAX.                           *)
(***************************************************************************)
EXTENDS Integers, Sequences, FiniteSets, TLC

\* ------------------------------------------------------------------ bounds
\* Longest search text typed into the input box.
MaxInput == 2
\* How far prev() is followed below a wrapped-around usize.
MaxWrap == 2

\* ------------------------------------------------------------ input domains
\* Process names: "bash", "zsh", "ash", "a", "As".
bash == <<98, 97, 115, 104>>
zsh == <<122, 115, 104>>
ash == <<97, 115, 104>>
a_ == <<97>>
As == <<65, 115>>

\* The process tables the system may show at start-up (pid -> name): three
\* distinct names in no order, and two processes of one name beside a name
\* that differs from it in case.
InitialTables == {<<bash, zsh, ash>>, <<a_, As, a_>>}

\* Characters typed while editing: 'a', 's', 'q'.
TypedChars == {97, 115, 113}

\* ------------------------------------------------------------------ Option
None == <<>>
Some(x) == <<x>>
IsSome(o) == Len(o) = 1
Unwrap(o) == o[1]

\* ------------------------------------------------------------------- state
VARIABLES
    os,                  \* the operating system's process table: pid -> name
    processes,           \* App.processes: Vec<(Pid, String)>
    selected,            \* App.state.selected(): Option<usize>
    sort_by_name_option, \* App.sort_by_name_option
    search_input,        \* App.search_input
    input_mode,          \* App.input_mode
    raw_mode,            \* whether the terminal is in raw mode
    pc,                  \* "run", "returned_ok", "returned_err", "exited", "panicked"
    panic,               \* the panic message, "" when none
    last,                \* the operation the latest step performed
    sent,                \* the pid the latest step asked the system to kill
    nexts                \* consecutive next() calls since selected was Some(0)

vars == <<os, processes, selected, sort_by_name_option, search_input,
          input_mode, raw_mode, pc, panic, last, sent, nexts>>

app == <<processes, selected, sort_by_name_option, search_input, input_mode>>

\* ------------------------------------------------------- strings (bytewise)
Min(x, y) == IF x < y THEN x ELSE y

\* a.cmp(b) == Ordering::Less for Strings: lexicographic on bytes.
StrLess(a, b) ==
    \E i \in 1..(Min(Len(a), Len(b)) + 1) :
        /\ \A j \in 1..(i - 1) : a[j] = b[j]
        /\ \/ i > Len(a) /\ i <= Len(b)
           \/ i <= Len(a) /\ i <= Len(b) /\ a[i] < b[i]

\* hay.contains(needle) for Strings: needle is a contiguous part of hay.
Contains(hay, needle) ==
    \E i \in 0..(Len(hay) - Len(needle)) :
        SubSeq(hay, i + 1, i + Len(needle)) = needle

\* ----------------------------------------------------------------- sorting
\* Vec::sort_by is a stable sort: equal elements keep their order.
\* Less(x, y, order) is "the comparator returns Ordering::Less for (x, y)":
\* a.1.cmp(&b.1) when order is "ASC", b.1.cmp(&a.1) when it is "DESC".
Less(x, y, order) ==
    IF order = "ASC" THEN StrLess(x[2], y[2]) ELSE StrLess(y[2], x[2])

RECURSIVE InsertSorted(_, _, _)
InsertSorted(x, t, order) ==
    IF t = <<>> THEN <<x>>
    ELSE IF Less(x, Head(t), order) THEN <<x>> \o t
    ELSE <<Head(t)>> \o InsertSorted(x, Tail(t), order)

RECURSIVE StableSort(_, _)
StableSort(s, order) ==
    IF s = <<>> THEN <<>>
    ELSE InsertSorted(s[Len(s)], StableSort(SubSeq(s, 1, Len(s) - 1), order), order)

\* Faulty variant of SortAsc: the comparator's arguments swapped.
SortAsc_Swapped(s) == StableSort(s, "DESC")

\* processes.sort_by(|a, b| a.1.cmp(&b.1))
SortAsc(s) == StableSort(s, "ASC")

\* Faulty variant of SortDesc: the ascending comparator copied unchanged.
SortDesc_SameComparator(s) == StableSort(s, "ASC")

\* processes.sort_by(|a, b| b.1.cmp(&a.1))
SortDesc(s) == StableSort(s, "DESC")

\* ------------------------------------------------------- the process table
\* Every order in which System::processes() (a HashMap) may be iterated.
Orders(S) ==
    {f \in [1..Cardinality(S) -> S] : \A i, j \in 1..Cardinality(S) : f[i] = f[j] => i = j}

Snapshots(table) ==
    {[i \in 1..Cardinality(DOMAIN table) |-> <<o[i], table[o[i]]>>] : o \in Orders(DOMAIN table)}

Remove(table, p) == [q \in (DOMAIN table) \ {p} |-> table[q]]

\* -------------------------------------------------------------------- Init
\* App::new(): fetch the processes, sort them by name, nothing selected.
Init ==
    /\ os \in InitialTables
    /\ processes \in {SortAsc(s) : s \in Snapshots(os)}
    /\ selected = None
    /\ sort_by_name_option = "NONE"
    /\ search_input = <<>>
    /\ input_mode = "NORMAL"
    /\ raw_mode = TRUE
    /\ pc = "run"
    /\ panic = ""
    /\ last = "new"
    /\ sent = None
    /\ nexts = None


\* ------------------------------------------------------------ usize values
\* i >= n and i == 0 on usize, with a wrapped value written as a negative.
Wrapped(i) == i < 0
UGe(i, n) == Wrapped(i) \/ i >= n

\* ------------------------------------------------- App: pure parts of the ops
\* Faulty variant of NextSortOption: DESC goes back to NONE.
NextSortOption_BackToNone(o) ==
    CASE o = "ASC" -> "DESC"
      [] o = "DESC" -> "NONE"
      [] OTHER -> "ASC"

\* switch_sort, first match: the option after the toggle.
NextSortOption(o) ==
    CASE o = "ASC" -> "DESC"
      [] o = "DESC" -> "ASC"
      [] OTHER -> "ASC"

\* switch_sort, second match: the list sorted as the new option says.
SortedAs(o, s) ==
    CASE o = "ASC" -> SortAsc(s)
      [] o = "DESC" -> SortDesc(s)
      [] OTHER -> s

\* Faulty variant of NextIndex: the cursor stops at the last row instead of going on.
NextIndex_Clamped(sel, len) ==
    IF IsSome(sel)
    THEN IF UGe(Unwrap(sel) + 1, len) THEN Unwrap(sel) ELSE Unwrap(sel) + 1
    ELSE 0

\* next(): the index selected after the call.
NextIndex(sel, len) ==
    IF IsSome(sel)
    THEN IF UGe(Unwrap(sel), len) THEN 0 ELSE Unwrap(sel) + 1
    ELSE 0

\* prev(): whether the call evaluates processes.len() - 1 on an empty list.
PrevUnderflows(sel, len) == IsSome(sel) /\ Unwrap(sel) = 0 /\ len = 0

\* Faulty variant of PrevIndex: saturating_sub(1), index 0 stays 0.
PrevIndex_Saturating(sel, len) ==
    IF IsSome(sel)
    THEN IF Unwrap(sel) = 0 THEN 0 ELSE Unwrap(sel) - 1
    ELSE 0

\* prev(): the index selected after the call, when the subtraction does not
\* overflow or the build wraps on overflow (0 - 1 is usize::MAX, written -1).
PrevIndex(sel, len) ==
    IF IsSome(sel)
    THEN IF Unwrap(sel) = 0 THEN len - 1 ELSE Unwrap(sel) - 1
    ELSE 0

\* Faulty variant of Matches: only name.contains(search_input) is tested.
Matches_NameContainsOnly(term, name) == Contains(name, term)

\* search(): the test an entry passes to be kept.
Matches(term, name) == Contains(term, name) \/ Contains(name, term)

\* search(): the entries of a fetched list kept for a search text.
Filtered(term, s) ==
    IF term = <<>> THEN s ELSE SelectSeq(s, LAMBDA e : Matches(term, e[2]))

\* kill(): whether processes[selected.unwrap()] is a valid element.
KillTarget(sel, s) ==
    IF ~IsSome(sel) THEN "unwrap_none"
    ELSE IF UGe(Unwrap(sel), Len(s)) THEN "out_of_bounds"
    ELSE "ok"

\* ----------------------------------------------------------------- frames
\* The count of consecutive next() calls restarts after any other operation.
RestartNexts(sel) == nexts' = IF sel = Some(0) THEN Some(0) ELSE None

\* A panic unwinds out of main: nothing else runs, the state stays as it is.
Panic(op, msg) ==
    /\ pc' = "panicked"
    /\ panic' = msg
    /\ last' = op
    /\ sent' = None
    /\ UNCHANGED <<os, app, raw_mode, nexts>>

Running(mode) == pc = "run" /\ input_mode = mode

\* ------------------------------------------------------------ App operations
\* App::next (Down, j)
next ==
    /\ selected' = Some(NextIndex(selected, Len(processes)))
    /\ nexts' = IF IsSome(nexts) /\ Unwrap(nexts) < Len(processes)
                THEN Some(Unwrap(nexts) + 1)
                ELSE IF selected' = Some(0) THEN Some(0) ELSE None
    /\ last' = "next"
    /\ sent' = None
    /\ UNCHANGED <<os, processes, sort_by_name_option, search_input, input_mode,
                   raw_mode, pc, panic>>

\* App::prev (Up, k).  processes.len() - 1 on an empty list overflows: a build
\* with overflow checks panics, a build without them wraps to usize::MAX.
prev ==
    \/ /\ ~PrevUnderflows(selected, Len(processes))
       /\ Wrapped(PrevIndex(selected, Len(processes))) =>
              PrevIndex(selected, Len(processes)) >= -MaxWrap
       /\ selected' = Some(PrevIndex(selected, Len(processes)))
       /\ RestartNexts(selected')
       /\ last' = "prev"
       /\ sent' = None
       /\ UNCHANGED <<os, processes, sort_by_name_option, search_input, input_mode,
                      raw_mode, pc, panic>>
    \/ /\ PrevUnderflows(selected, Len(processes))
       /\ \/ Panic("prev", "attempt to subtract with overflow")
          \/ /\ selected' = Some(PrevIndex(selected, Len(processes)))
             /\ RestartNexts(selected')
             /\ last' = "prev"
             /\ sent' = None
             /\ UNCHANGED <<os, processes, sort_by_name_option, search_input,
                            input_mode, raw_mode, pc, panic>>

\* Faulty variant of switch_sort: the selection is cleared after sorting.
switch_sort_ClearsSelection ==
    /\ sort_by_name_option' = NextSortOption(sort_by_name_option)
    /\ processes' = SortedAs(sort_by_name_option', processes)
    /\ selected' = None
    /\ RestartNexts(selected')
    /\ last' = "switch_sort"
    /\ sent' = None
    /\ UNCHANGED <<os, search_input, input_mode, raw_mode, pc, panic>>

\* App::switch_sort (n)
switch_sort ==
    /\ sort_by_name_option' = NextSortOption(sort_by_name_option)
    /\ processes' = SortedAs(sort_by_name_option', processes)
    /\ RestartNexts(selected)
    /\ last' = "switch_sort"
    /\ sent' = None
    /\ UNCHANGED <<os, selected, search_input, input_mode, raw_mode, pc, panic>>

\* Faulty variant of Refetched: self.processes.clear() left out.
Refetched_NoClear(table) == {processes \o s : s \in Snapshots(table)}

\* App::refetch_process: the list a fetch of the process table `table` gives.
Refetched(table) == Snapshots(table)

\* App::refetch_process (r)
refetch_process ==
    /\ processes' \in Refetched(os)
    /\ RestartNexts(selected)
    /\ last' = "refetch_process"
    /\ sent' = None
    /\ UNCHANGED <<os, selected, sort_by_name_option, search_input, input_mode,
                   raw_mode, pc, panic>>

\* App::kill (Enter in NORMAL).  The signal is sent and its result ignored;
\* the target may or may not have left the process table when the list is
\* fetched again.
kill ==
    \/ /\ KillTarget(selected, processes) = "unwrap_none"
       /\ Panic("kill", "selected().unwrap() on None")
    \/ /\ KillTarget(selected, processes) = "out_of_bounds"
       /\ Panic("kill", "index out of bounds")
    \/ /\ KillTarget(selected, processes) = "ok"
       /\ LET pid == processes[Unwrap(selected) + 1][1] IN
          \/ /\ pid \notin DOMAIN os
             /\ Panic("kill", "process(pid).unwrap() on None")
          \/ /\ pid \in DOMAIN os
             /\ sent' = Some(pid)
             /\ os' \in {os, Remove(os, pid)}
             /\ processes' \in Refetched(os')
             /\ RestartNexts(selected)
             /\ last' = "kill"
             /\ UNCHANGED <<selected, sort_by_name_option, search_input, input_mode,
                            raw_mode, pc, panic>>

\* App::enter_input_mode (i)
enter_input_mode ==
    /\ input_mode' = "EDITING"
    /\ RestartNexts(selected)
    /\ last' = "enter_input_mode"
    /\ sent' = None
    /\ UNCHANGED <<os, processes, selected, sort_by_name_option, search_input,
                   raw_mode, pc, panic>>

\* Faulty variant of exit_input_mode: the body of enter_input_mode copied.
exit_input_mode_Copied ==
    /\ input_mode' = "EDITING"
    /\ RestartNexts(selected)
    /\ last' = "exit_input_mode"
    /\ sent' = None
    /\ UNCHANGED <<os, processes, selected, sort_by_name_option, search_input,
                   raw_mode, pc, panic>>

\* App::exit_input_mode (Esc)
exit_input_mode ==
    /\ input_mode' = "NORMAL"
    /\ RestartNexts(selected)
    /\ last' = "exit_input_mode"
    /\ sent' = None
    /\ UNCHANGED <<os, processes, selected, sort_by_name_option, search_input,
                   raw_mode, pc, panic>>

\* App::search (Enter in EDITING)
search ==
    /\ \E fetched \in Refetched(os) : processes' = Filtered(search_input, fetched)
    /\ RestartNexts(selected)
    /\ last' = "search"
    /\ sent' = None
    /\ UNCHANGED <<os, selected, sort_by_name_option, search_input, input_mode,
                   raw_mode, pc, panic>>

\* ------------------------------------------------------- run_app: key dispatch
KeyDown == Running("NORMAL") /\ next
KeyUp == Running("NORMAL") /\ prev
KeyEnterNormal == Running("NORMAL") /\ kill
KeyN == Running("NORMAL") /\ switch_sort
KeyI == Running("NORMAL") /\ enter_input_mode
KeyR == Running("NORMAL") /\ refetch_process

\* Faulty variant of KeyQ: the q arm placed before the match on input_mode.
KeyQ_AnyMode ==
    /\ pc = "run"
    /\ pc' = "returned_ok"
    /\ last' = "quit"
    /\ sent' = None
    /\ UNCHANGED <<os, app, raw_mode, panic, nexts>>

\* q: return Ok(())
KeyQ ==
    /\ Running("NORMAL")
    /\ pc' = "returned_ok"
    /\ last' = "quit"
    /\ sent' = None
    /\ UNCHANGED <<os, app, raw_mode, panic, nexts>>

\* Faulty variant of Unbound: the default arm fetches the list again.
Unbound_Refetches ==
    /\ pc = "run"
    /\ processes' \in Refetched(os)
    /\ RestartNexts(selected)
    /\ last' = "unbound"
    /\ sent' = None
    /\ UNCHANGED <<os, selected, sort_by_name_option, search_input, input_mode,
                   raw_mode, pc, panic>>

\* Any other key, and any event that is not a key: nothing happens.
Unbound ==
    /\ pc = "run"
    /\ RestartNexts(selected)
    /\ last' = "unbound"
    /\ sent' = None
    /\ UNCHANGED <<os, app, raw_mode, pc, panic>>

KeyEsc == Running("EDITING") /\ exit_input_mode

\* Faulty variant of KeyBackspace: search_input.clear() instead of pop().
KeyBackspace_Clears ==
    /\ Running("EDITING")
    /\ search_input' = <<>>
    /\ RestartNexts(selected)
    /\ last' = "pop"
    /\ sent' = None
    /\ UNCHANGED <<os, processes, selected, sort_by_name_option, input_mode,
                   raw_mode, pc, panic>>

\* Backspace: search_input.pop()
KeyBackspace ==
    /\ Running("EDITING")
    /\ search_input' = IF search_input = <<>> THEN <<>>
                       ELSE SubSeq(search_input, 1, Len(search_input) - 1)
    /\ RestartNexts(selected)
    /\ last' = "pop"
    /\ sent' = None
    /\ UNCHANGED <<os, processes, selected, sort_by_name_option, input_mode,
                   raw_mode, pc, panic>>

KeyEnterEditing == Running("EDITING") /\ search

\* Char(c): search_input.push(c)
KeyChar ==
    /\ Running("EDITING")
    /\ Len(search_input) < MaxInput
    /\ \E c \in TypedChars : search_input' = Append(search_input, c)
    /\ RestartNexts(selected)
    /\ last' = "push"
    /\ sent' = None
    /\ UNCHANGED <<os, processes, selected, sort_by_name_option, input_mode,
                   raw_mode, pc, panic>>

\* terminal.draw(..)? or event::read()? fails: run_app returns the error.
IoError ==
    /\ pc = "run"
    /\ pc' = "returned_err"
    /\ last' = "io_error"
    /\ sent' = None
    /\ UNCHANGED <<os, app, raw_mode, panic, nexts>>

\* main after run_app: disable_raw_mode()? and the rest, then exit.
MainRestore ==
    /\ pc \in {"returned_ok", "returned_err"}
    /\ pc' = "exited"
    /\ raw_mode' = FALSE
    /\ last' = "restore"
    /\ sent' = None
    /\ UNCHANGED <<os, app, panic, nexts>>

\* ------------------------------------------------------------ the environment
\* A process leaves the process table on its own.
ProcExit ==
    /\ pc = "run"
    /\ \E p \in DOMAIN os : os' = Remove(os, p)
    /\ last' = "proc_exit"
    /\ sent' = None
    /\ UNCHANGED <<app, raw_mode, pc, panic, nexts>>

Next ==
    \/ KeyDown
    \/ KeyUp
    \/ KeyEnterNormal
    \/ KeyQ
    \/ KeyN
    \/ KeyI
    \/ KeyR
    \/ Unbound
    \/ KeyEsc
    \/ KeyBackspace
    \/ KeyEnterEditing
    \/ KeyChar
    \/ IoError
    \/ MainRestore
    \/ ProcExit

Spec == Init /\ [][Next]_vars


\* ------------------------------------------------------- helpers for claims
Names(s) == [i \in 1..Len(s) |-> s[i][2]]
Reverse(s) == [i \in 1..Len(s) |-> s[Len(s) + 1 - i]]
Count(s, e) == Cardinality({i \in 1..Len(s) : s[i] = e})
Elems(s) == {s[i] : i \in 1..Len(s)}
IsPermutation(s, t) ==
    /\ Len(s) = Len(t)
    /\ \A e \in Elems(s) \cup Elems(t) : Count(s, e) = Count(t, e)
NameAscending(s) == \A i, j \in 1..Len(s) : i < j => ~StrLess(s[j][2], s[i][2])
NameDescending(s) == \A i, j \in 1..Len(s) : i < j => ~StrLess(s[i][2], s[j][2])
DistinctNames(s) == \A i, j \in 1..Len(s) : s[i][2] = s[j][2] => i = j
InRange(sel, s) == IsSome(sel) /\ 0 <= Unwrap(sel) /\ Unwrap(sel) < Len(s)

\* ------------------------------------------------------------------ claims

\* C1: whenever entries is non-empty, the selected index is None or lies in
\* [0, len(entries)).
C1_SelectionInRange ==
    processes # <<>> => (selected = None \/ InRange(selected, processes))

\* C2: Enter in NORMAL mode with nothing selected, or with an empty list, sends
\* no termination request, does not crash and leaves the loop running in
\* NORMAL mode.
C2_KillWithoutSelectionIsNoOp ==
    [][(last' = "kill" /\ (selected = None \/ processes = <<>>))
         => (pc' = "run" /\ sent' = None /\ input_mode' = "NORMAL")]_vars

\* C3: Enter in NORMAL mode with selected = Some(i), i >= len(entries), sends
\* no termination request and does not crash.
C3_KillOutOfRangeIsNoOp ==
    [][(last' = "kill" /\ IsSome(selected) /\ UGe(Unwrap(selected), Len(processes)))
         => (pc' = "run" /\ sent' = None)]_vars

\* C4: when the selected entry's process has left the process table, kill
\* does not crash: the list is fetched again and the loop goes on.
C4_KillOfVanishedProcessRecovers ==
    [][(/\ last' = "kill"
        /\ InRange(selected, processes)
        /\ processes[Unwrap(selected) + 1][1] \notin DOMAIN os)
         => (pc' = "run" /\ processes' \in Snapshots(os'))]_vars

\* C5: after Enter in EDITING mode, entries holds exactly the entries of the
\* process table whose name contains the search text or is contained in it
\* (bytewise), each once, whatever entries held before; an empty search text
\* keeps every entry.
C5_FilterResult ==
    last = "search" =>
        /\ Elems(processes) =
               {<<p, os[p]>> : p \in {q \in DOMAIN os :
                    Contains(os[q], search_input) \/ Contains(search_input, os[q])}}
        /\ \A e \in Elems(processes) : Count(processes, e) = 1
        /\ search_input = <<>> => processes \in Snapshots(os)

C5_Witness ==
    /\ last = "search"
    /\ search_input = <<97, 115>>
    /\ DOMAIN os = {1, 2, 3}
    /\ Names(processes) = <<a_, a_>>

\* C6: after a refresh (r, or the one inside kill and search) entries is in
\* ascending name order when the sort option is ASC and in descending name
\* order when it is DESC.
C6_RefreshAppliesSort ==
    (last \in {"refetch_process", "kill", "search"} /\ pc = "run") =>
        /\ sort_by_name_option = "ASC" => NameAscending(processes)
        /\ sort_by_name_option = "DESC" => NameDescending(processes)

\* C7: the sort option starts NONE; switch_sort maps NONE to ASC, ASC to DESC
\* and DESC to ASC; nothing else changes it; once not NONE it is never NONE.
C7_SortModeCycle ==
    /\ sort_by_name_option = "NONE"
    /\ [][/\ last' = "switch_sort" =>
                \/ sort_by_name_option = "NONE" /\ sort_by_name_option' = "ASC"
                \/ sort_by_name_option = "ASC" /\ sort_by_name_option' = "DESC"
                \/ sort_by_name_option = "DESC" /\ sort_by_name_option' = "ASC"
          /\ last' # "switch_sort" => sort_by_name_option' = sort_by_name_option
          /\ sort_by_name_option # "NONE" => sort_by_name_option' # "NONE"]_vars

C7_Witness ==
    /\ last = "switch_sort"
    /\ sort_by_name_option = "DESC"
    /\ input_mode = "NORMAL"
    /\ pc = "run"

C9_ToggleSortResult ==
    [][last' = "switch_sort" =>
          /\ IsPermutation(processes', processes)
          /\ sort_by_name_option' = "ASC" => NameAscending(processes')
          /\ sort_by_name_option' = "DESC" => NameDescending(processes')
          /\ sort_by_name_option' \in {"ASC", "DESC"}
          /\ (IsPermutation(Names(processes), <<bash, zsh, ash>>)
                /\ sort_by_name_option' = "ASC")
               => Names(processes') = <<ash, bash, zsh>>
          /\ (IsPermutation(Names(processes), <<bash, zsh, ash>>)
                /\ sort_by_name_option' = "DESC")
               => Names(processes') = <<zsh, bash, ash>>]_vars

C9_Witness ==
    /\ last = "switch_sort"
    /\ sort_by_name_option = "DESC"
    /\ processes = <<<<2, zsh>>, <<1, bash>>, <<3, ash>>>>

\* C10: N consecutive next() calls from index 0 on a list of length N >= 1
\* leave the selected index congruent to 0 modulo N.
C10_CursorWraparound ==
    (IsSome(nexts) /\ Len(processes) >= 1 /\ Unwrap(nexts) = Len(processes)) =>
        (IsSome(selected) /\ Unwrap(selected) % Len(processes) = 0)

C10_Witness ==
    /\ nexts = Some(3)
    /\ Len(processes) = 3
    /\ selected = Some(3)

\* C11: when the process table reflects the removal at once, after a kill
\* that was sent for the selected entry's pid that pid is not in entries and
\* entries is a full listing of the process table after the kill.
C11_KillReconciliation ==
    (last = "kill" /\ pc = "run" /\ IsSome(sent) /\ Unwrap(sent) \notin DOMAIN os) =>
        /\ \A i \in 1..Len(processes) : processes[i][1] # Unwrap(sent)
        /\ Elems(processes) = {<<p, os[p]>> : p \in DOMAIN os}
        /\ Len(processes) = Cardinality(DOMAIN os)

C11_Witness ==
    /\ last = "kill"
    /\ pc = "run"
    /\ sent = Some(1)
    /\ DOMAIN os = {2, 3}
    /\ Len(processes) = 2

\* C12: the loop returns Ok only on q in NORMAL mode; in EDITING mode no key
\* ends the loop, and a q typed there is appended to the search text.
C12_QuitOnlyFromNormal ==
    [][/\ (pc = "run" /\ pc' = "returned_ok") =>
              (input_mode = "NORMAL" /\ last' = "quit")
       /\ (pc = "run" /\ input_mode = "EDITING"
             /\ last' \in {"exit_input_mode", "pop", "search", "push", "unbound"}) =>
              pc' = "run"
       /\ (pc = "run" /\ input_mode = "EDITING" /\ pc' # "run") => last' = "io_error"
       /\ last' = "quit" => (pc' = "returned_ok" /\ input_mode = "NORMAL")]_vars

C12_Witness ==
    /\ pc = "run"
    /\ input_mode = "EDITING"
    /\ last = "push"
    /\ search_input = <<97, 113>>

\* C13: the input mode starts NORMAL; it becomes EDITING only by i in NORMAL
\* and NORMAL only by Esc in EDITING; every other key, Enter in either mode
\* included, leaves it as it is.
C13_InputModeTransitions ==
    /\ input_mode = "NORMAL"
    /\ [][/\ last' = "enter_input_mode" =>
                (input_mode = "NORMAL" /\ input_mode' = "EDITING")
          /\ last' = "exit_input_mode" =>
                (input_mode = "EDITING" /\ input_mode' = "NORMAL")
          /\ last' \notin {"enter_input_mode", "exit_input_mode"} =>
                input_mode' = input_mode
          /\ last' = "kill" => input_mode' = "NORMAL"
          /\ last' = "search" => input_mode' = "EDITING"]_vars

C13_Witness ==
    /\ last = "exit_input_mode"
    /\ input_mode = "NORMAL"
    /\ Len(search_input) = 2
    /\ processes = <<>>

\* C14: the search text changes only in EDITING mode, and only by appending
\* one typed character or by dropping its last character on Backspace; no
\* step taken in NORMAL mode, and neither Enter nor Esc in EDITING mode,
\* changes it.
C14_BufferOnlyMutatedWhileEditing ==
    [][/\ input_mode = "NORMAL" => search_input' = search_input
       /\ search_input' # search_input =>
             \/ /\ last' = "push"
                /\ Len(search_input') = Len(search_input) + 1
                /\ SubSeq(search_input', 1, Len(search_input)) = search_input
             \/ /\ last' = "pop"
                /\ Len(search_input) = Len(search_input') + 1
                /\ SubSeq(search_input, 1, Len(search_input')) = search_input'
       /\ last' \in {"search", "exit_input_mode"} => search_input' = search_input
       /\ last' = "push" => Len(search_input') = Len(search_input) + 1
       /\ (last' = "pop" /\ search_input # <<>>) =>
             Len(search_input') = Len(search_input) - 1]_vars

C14_Witness ==
    /\ last = "pop"
    /\ input_mode = "EDITING"
    /\ search_input = <<115>>
    /\ Len(processes) = 3

\* C15: in either mode a key without a binding leaves entries, the sort
\* option, the selection, the input mode and the search text as they are and
\* does not end the loop.
C15_UnboundKeysAreNoOps ==
    [][last' = "unbound" =>
          /\ processes' = processes
          /\ sort_by_name_option' = sort_by_name_option
          /\ selected' = selected
          /\ input_mode' = input_mode
          /\ search_input' = search_input
          /\ pc = "run" /\ pc' = "run"
          /\ sent' = None]_vars

C15_Witness ==
    /\ last = "unbound"
    /\ input_mode = "EDITING"
    /\ sort_by_name_option = "ASC"
    /\ ~NameAscending(processes)
    /\ search_input # <<>>

\* C16: next() selects 0 when nothing is selected; with index i selected it
\* selects i + 1, except that it selects 0 when i + 1 equals len(entries).
C16_NextStepRule ==
    [][last' = "next" =>
          selected' = IF selected = None THEN Some(0)
                      ELSE IF Unwrap(selected) + 1 = Len(processes) THEN Some(0)
                      ELSE Some(Unwrap(selected) + 1)]_vars

\* C17: on a non-empty list prev() selects 0 when nothing is selected,
\* len(entries) - 1 from index 0 and i - 1 from an index i > 0; from an index
\* in range it selects an index in range.
C17_PrevStepRule ==
    [][(last' = "prev" /\ processes # <<>>) =>
          /\ pc' = "run"
          /\ selected = None => selected' = Some(0)
          /\ selected = Some(0) => selected' = Some(Len(processes) - 1)
          /\ (IsSome(selected) /\ Unwrap(selected) # 0) =>
                selected' = Some(Unwrap(selected) - 1)
          /\ InRange(selected, processes) => InRange(selected', processes)]_vars

C17_Witness ==
    /\ last = "prev"
    /\ pc = "run"
    /\ Len(processes) = 3
    /\ selected = Some(2)
    /\ sort_by_name_option = "NONE"
    /\ input_mode = "NORMAL"

\* C18: on an empty list prev() does not crash, does not wrap the index below
\* zero and keeps the selection None.
C18_PrevOnEmptyListIsSafe ==
    [][(last' = "prev" /\ processes = <<>>) =>
          /\ pc' = "run"
          /\ IsSome(selected') => ~Wrapped(Unwrap(selected'))
          /\ selected = None => selected' = None]_vars

\* C19: refresh, switch_sort, search and kill leave the selection exactly as
\* it was; only next() and prev() change it, and once it is Some it is never
\* None again.
C19_ListOperationsKeepSelection ==
    [][/\ last' \in {"refetch_process", "switch_sort", "search", "kill"} =>
             selected' = selected
       /\ selected' # selected => last' \in {"next", "prev"}
       /\ IsSome(selected) => IsSome(selected')]_vars

C19_Witness ==
    /\ last = "search"
    /\ selected = Some(2)
    /\ processes = <<>>
    /\ pc = "run"

\* C20: on every path by which the program stops (q, an I/O error of the
\* loop, a failure inside an operation) raw mode has been disabled.
C20_RawModeRestoredOnExit ==
    pc \in {"exited", "panicked"} => raw_mode = FALSE

====
